---------------------------- MODULE Spec2Model ----------------------------
(***************************************************************************)
(* Model of src/SmartHome.py: the HomeAutomationSystem aggregate, its two  *)
(* rules, the monitoring loop that runs in automation_thread and the       *)
(* foreground shutdown path of the __main__ block.                         *)
(*                                                                         *)
(* Units.  time.time() is modelled in milliseconds (integers); the         *)
(* recorded timestamps, which the code rounds to two decimals, are in      *)
(* hundredths of a second.  Temperature readings, which the sensor rounds  *)
(* to two decimals, are in hundredths of a degree; target_temperature is   *)
(* in whole degrees as in the source.                                      *)
(***************************************************************************)
EXTENDS Integers, Sequences, FiniteSets, TLC

VARIABLES
    now,               \* the value time.time() returns, in ms
    running,           \* HomeAutomationSystem.running
    last_motion_time,  \* HomeAutomationSystem.last_motion_time, in ms
    start_time,        \* HomeAutomationSystem.start_time, in ms
    devices,           \* HomeAutomationSystem.devices: light_1, thermostat_1
    sensors,           \* HomeAutomationSystem.sensors: the three Sensor.value
    timestamps,        \* HomeAutomationSystem.timestamps
    temp_data,         \* HomeAutomationSystem.temp_data
    light_data,        \* HomeAutomationSystem.light_data
    motion_data,       \* HomeAutomationSystem.motion_data
    loopPc,            \* position of automation_thread
    mainPc,            \* position of the foreground thread
    current_time,      \* local of process_sensor_data
    wakeAt,            \* instant at which the pending time.sleep may return
    ticksDone,         \* history: completed calls of process_sensor_data
    plotCalls,         \* history: invocations of plot_data
    called,            \* history: last operation a single caller applied
    arg,               \* history: the numeric argument of that operation
    startedAt,         \* history: the clock when start_monitoring was entered
    raised             \* history: that operation ended in an exception

series == <<timestamps, temp_data, light_data, motion_data>>
aggregate == <<running, last_motion_time, start_time, devices, sensors>>
history == <<ticksDone, plotCalls, called, arg, startedAt, raised>>
vars == <<now, aggregate, series, loopPc, mainPc, current_time, wakeAt, history>>

---------------------------------------------------------------------------
(* Bounds of the model *)

\* the loop starts at most MaxTicks calls of process_sensor_data
MaxTicks == 2

(* Program constants *)

\* args=(5,) of the thread: the interval of time.sleep, in ms
Interval == 5000
\* the 30 second motion timeout of rule_lighting_control, in ms
MotionTimeout == 30000
\* the lux threshold of rule_lighting_control
LuxThreshold == 200
\* the brightness rule_lighting_control sets
RuleBrightness == 70
\* default brightness of SmartLight
DefaultBrightness == 50
\* default target_temperature of SmartThermostat, in degrees
DefaultTarget == 24

\* Sensor.value is None before the first read_value and the reading
\* afterwards: the empty sequence, or the sequence of the one reading
None == <<>>
Reading(v) == <<v>>
ValueOf(value) == value[1]

(* Inputs *)

\* Instants the clock may jump to.  All clock values are even, so that
\* time.time() - start_time is never half way between two hundredths.
Instants == {30000, 30002}
\* the instants at which __init__ may read start_time (last_motion_time
\* is read first, at 0)
StartInstants == {0, 2}
\* readings of TemperatureSensor, hundredths of a degree in [2000, 3000]
TempReadings == {2500, 2501}
\* readings of LightSensor, lux in [100, 600]
LuxReadings == {199, 200}
\* readings of MotionSensor
MotionReadings == BOOLEAN

Max(a, b) == IF a >= b THEN a ELSE b

---------------------------------------------------------------------------
(* SmartDevice, SmartLight, SmartThermostat *)

\* the status setter: only "on" and "off" are accepted
set_status(dev, new_status) ==
    IF new_status \in {"on", "off"}
    THEN [dev EXCEPT !.status = new_status]
    ELSE dev

turn_on(dev) == set_status(dev, "on")

turn_off(dev) == set_status(dev, "off")

\* faulty variant of set_brightness: the bounds 0 and 100 are refused
set_brightness_exclusive(light, level) ==
    IF 0 < level /\ level < 100
    THEN [light EXCEPT !.brightness = level]
    ELSE light

set_brightness(light, level) ==
    IF 0 <= level /\ level <= 100
    THEN [light EXCEPT !.brightness = level]
    ELSE light

\* faulty variant of set_target_temperature: the lower bound is missing
set_target_temperature_unbounded_below(th, temp) ==
    IF temp <= 30
    THEN [th EXCEPT !.target_temperature = temp]
    ELSE th

set_target_temperature(th, temp) ==
    IF 18 <= temp /\ temp <= 30
    THEN [th EXCEPT !.target_temperature = temp]
    ELSE th

\* SmartLight(device_id, name, brightness): status starts "off"
SmartLight(brightness) == [status |-> "off", brightness |-> brightness]

\* SmartThermostat(device_id, name, target_temperature)
SmartThermostat(target) == [status |-> "off", target_temperature |-> target]

\* initialize_components
InitialDevices ==
    [light_1 |-> SmartLight(DefaultBrightness),
     thermostat_1 |-> SmartThermostat(DefaultTarget)]

InitialSensors ==
    [temp_sensor_1 |-> None, light_sensor_1 |-> None, motion_sensor_1 |-> None]

---------------------------------------------------------------------------
(* The rules *)

\* round(x, 2) of a duration of ms milliseconds, in hundredths of a second
\* (ms is never half way between two hundredths, see Instants)
Round2(ms) == (ms + 5) \div 10

\* faulty variant of rule_thermostat_control: the upper boundary reading
\* target + 1 counts as too warm
rule_thermostat_inclusive(th, current_temp) ==
    LET target_temp == th.target_temperature
    IN  IF current_temp >= (target_temp + 1) * 100
        THEN turn_on(th)
        ELSE IF current_temp < (target_temp - 1) * 100
             THEN turn_on(th)
             ELSE turn_off(th)

\* faulty variant of rule_thermostat_control: the else branch is missing,
\* so within the band the thermostat keeps its status
rule_thermostat_hysteresis(th, current_temp) ==
    LET target_temp == th.target_temperature
    IN  IF current_temp > (target_temp + 1) * 100
        THEN turn_on(th)
        ELSE IF current_temp < (target_temp - 1) * 100
             THEN turn_on(th)
             ELSE th

\* rule_thermostat_control: the thermostat after the rule, for the reading
\* current_temp (hundredths of a degree)
rule_thermostat_control(th, current_temp) ==
    LET target_temp == th.target_temperature
    IN  IF current_temp > (target_temp + 1) * 100
        THEN turn_on(th)
        ELSE IF current_temp < (target_temp - 1) * 100
             THEN turn_on(th)
             ELSE turn_off(th)

\* faulty variant of rule_lighting_control: a lux equal to the threshold
\* counts as dark
rule_lighting_inclusive(light, lmt, lux, motion, t) ==
    IF motion
    THEN [last_motion_time |-> t,
          light |-> IF lux <= LuxThreshold /\ light.status = "off"
                    THEN set_brightness(turn_on(light), RuleBrightness)
                    ELSE light]
    ELSE [last_motion_time |-> lmt,
          light |-> IF light.status = "on" /\ t - lmt > MotionTimeout
                    THEN turn_off(light)
                    ELSE light]

\* faulty variant of rule_lighting_control: the light goes off as soon as
\* the timeout is reached, not only once it is exceeded
rule_lighting_timeout_reached(light, lmt, lux, motion, t) ==
    IF motion
    THEN [last_motion_time |-> t,
          light |-> IF lux < LuxThreshold /\ light.status = "off"
                    THEN set_brightness(turn_on(light), RuleBrightness)
                    ELSE light]
    ELSE [last_motion_time |-> lmt,
          light |-> IF light.status = "on" /\ t - lmt >= MotionTimeout
                    THEN turn_off(light)
                    ELSE light]

\* faulty variant of rule_lighting_control: the light is turned on at the
\* brightness it already has
rule_lighting_keeps_brightness(light, lmt, lux, motion, t) ==
    IF motion
    THEN [last_motion_time |-> t,
          light |-> IF lux < LuxThreshold /\ light.status = "off"
                    THEN turn_on(light)
                    ELSE light]
    ELSE [last_motion_time |-> lmt,
          light |-> IF light.status = "on" /\ t - lmt > MotionTimeout
                    THEN turn_off(light)
                    ELSE light]

\* rule_lighting_control: the light and last_motion_time after the rule;
\* t is the value of time.time() the rule reads
rule_lighting_control(light, lmt, lux, motion, t) ==
    IF motion
    THEN [last_motion_time |-> t,
          light |-> IF lux < LuxThreshold /\ light.status = "off"
                    THEN set_brightness(turn_on(light), RuleBrightness)
                    ELSE light]
    ELSE [last_motion_time |-> lmt,
          light |-> IF light.status = "on" /\ t - lmt > MotionTimeout
                    THEN turn_off(light)
                    ELSE light]

---------------------------------------------------------------------------
(* The state after HomeAutomationSystem() *)

Init ==
    /\ last_motion_time = 0
    /\ start_time \in StartInstants
    /\ now = start_time
    /\ running = FALSE
    /\ devices = InitialDevices
    /\ sensors = InitialSensors
    /\ timestamps = <<>>
    /\ temp_data = <<>>
    /\ light_data = <<>>
    /\ motion_data = <<>>
    /\ loopPc = "not_started"
    /\ mainPc = "start_thread"
    /\ current_time = 0
    /\ wakeAt = 0
    /\ ticksDone = 0
    /\ plotCalls = 0
    /\ startedAt = 0
    /\ called = "none"
    /\ arg = 0
    /\ raised = FALSE

\* the clock moves forward
Advance ==
    /\ \E t \in Instants : t > now /\ now' = t
    /\ UNCHANGED <<aggregate, series, loopPc, mainPc, current_time, wakeAt, history>>

---------------------------------------------------------------------------
(* automation_thread: start_monitoring and process_sensor_data *)

\* self.running = True
StartMonitoring ==
    /\ loopPc = "start_monitoring"
    /\ running' = TRUE
    /\ startedAt' = now
    /\ loopPc' = "while"
    /\ UNCHANGED <<now, last_motion_time, start_time, devices, sensors, series,
                   mainPc, current_time, wakeAt, ticksDone, plotCalls, called, arg,
                   raised>>

\* while self.running: the test of the loop; the loop body is entered at
\* most MaxTicks times
WhileTest ==
    /\ loopPc = "while"
    /\ IF running
       THEN /\ Len(timestamps) < MaxTicks
            /\ loopPc' = "process_sensor_data"
       ELSE loopPc' = "done"
    /\ UNCHANGED <<now, aggregate, series, mainPc, current_time, wakeAt, history>>

\* faulty variant of ComputeTime: the elapsed time is taken from
\* last_motion_time instead of start_time
ComputeTimeSinceMotion ==
    /\ loopPc = "process_sensor_data"
    /\ current_time' = Round2(now - last_motion_time)
    /\ loopPc' = "read_temp"
    /\ UNCHANGED <<now, aggregate, series, mainPc, wakeAt, history>>

\* current_time = round(time.time() - self.start_time, 2)
ComputeTime ==
    /\ loopPc = "process_sensor_data"
    /\ current_time' = Round2(now - start_time)
    /\ loopPc' = "read_temp"
    /\ UNCHANGED <<now, aggregate, series, mainPc, wakeAt, history>>

\* the three sensor.read_value() calls, in the order of the sensors dict
ReadTemp ==
    /\ loopPc = "read_temp"
    /\ \E v \in TempReadings : sensors' = [sensors EXCEPT !.temp_sensor_1 = Reading(v)]
    /\ loopPc' = "read_light"
    /\ UNCHANGED <<now, running, last_motion_time, start_time, devices, series,
                   mainPc, current_time, wakeAt, history>>

ReadLight ==
    /\ loopPc = "read_light"
    /\ \E v \in LuxReadings : sensors' = [sensors EXCEPT !.light_sensor_1 = Reading(v)]
    /\ loopPc' = "read_motion"
    /\ UNCHANGED <<now, running, last_motion_time, start_time, devices, series,
                   mainPc, current_time, wakeAt, history>>

ReadMotion ==
    /\ loopPc = "read_motion"
    /\ \E v \in MotionReadings : sensors' = [sensors EXCEPT !.motion_sensor_1 = Reading(v)]
    /\ loopPc' = "append_timestamps"
    /\ UNCHANGED <<now, running, last_motion_time, start_time, devices, series,
                   mainPc, current_time, wakeAt, history>>

\* the four appends of process_sensor_data
AppendTimestamps ==
    /\ loopPc = "append_timestamps"
    /\ timestamps' = Append(timestamps, current_time)
    /\ loopPc' = "append_temp"
    /\ UNCHANGED <<now, aggregate, temp_data, light_data, motion_data,
                   mainPc, current_time, wakeAt, history>>

\* faulty variant of AppendTemp: the temperature column is filled from the
\* light sensor
AppendTempFromLightSensor ==
    /\ loopPc = "append_temp"
    /\ temp_data' = Append(temp_data, ValueOf(sensors.light_sensor_1))
    /\ loopPc' = "append_light"
    /\ UNCHANGED <<now, aggregate, timestamps, light_data, motion_data,
                   mainPc, current_time, wakeAt, history>>

AppendTemp ==
    /\ loopPc = "append_temp"
    /\ temp_data' = Append(temp_data, ValueOf(sensors.temp_sensor_1))
    /\ loopPc' = "append_light"
    /\ UNCHANGED <<now, aggregate, timestamps, light_data, motion_data,
                   mainPc, current_time, wakeAt, history>>

AppendLight ==
    /\ loopPc = "append_light"
    /\ light_data' = Append(light_data, ValueOf(sensors.light_sensor_1))
    /\ loopPc' = "append_motion"
    /\ UNCHANGED <<now, aggregate, timestamps, temp_data, motion_data,
                   mainPc, current_time, wakeAt, history>>

\* faulty variant of AppendMotion: a row is recorded only when motion
\* was detected
AppendMotionWhenDetected ==
    /\ loopPc = "append_motion"
    /\ motion_data' = IF ValueOf(sensors.motion_sensor_1)
                      THEN Append(motion_data, 1)
                      ELSE motion_data
    /\ loopPc' = "rule_thermostat_control"
    /\ UNCHANGED <<now, aggregate, timestamps, temp_data, light_data,
                   mainPc, current_time, wakeAt, history>>

AppendMotion ==
    /\ loopPc = "append_motion"
    /\ motion_data' = Append(motion_data, IF ValueOf(sensors.motion_sensor_1) THEN 1 ELSE 0)
    /\ loopPc' = "rule_thermostat_control"
    /\ UNCHANGED <<now, aggregate, timestamps, temp_data, light_data,
                   mainPc, current_time, wakeAt, history>>

\* self.rule_thermostat_control()
RuleThermostat ==
    /\ loopPc = "rule_thermostat_control"
    /\ devices' = [devices EXCEPT !.thermostat_1 =
                      rule_thermostat_control(@, ValueOf(sensors.temp_sensor_1))]
    /\ loopPc' = "rule_lighting_control"
    /\ UNCHANGED <<now, running, last_motion_time, start_time, sensors, series,
                   mainPc, current_time, wakeAt, history>>

\* self.rule_lighting_control(), up to its first write.  With motion:
\* self.last_motion_time = time.time().  Without motion: the light is
\* turned off if it is on and the timeout is exceeded, and
\* process_sensor_data returns.
RuleLighting ==
    /\ loopPc = "rule_lighting_control"
    /\ IF ValueOf(sensors.motion_sensor_1)
       THEN /\ last_motion_time' = now
            /\ loopPc' = "light_turn_on"
            /\ UNCHANGED <<devices, ticksDone>>
       ELSE /\ devices' = [devices EXCEPT !.light_1 =
                             IF @.status = "on" /\ now - last_motion_time > MotionTimeout
                             THEN turn_off(@)
                             ELSE @]
            /\ ticksDone' = ticksDone + 1
            /\ loopPc' = "sleep"
            /\ UNCHANGED last_motion_time
    /\ UNCHANGED <<now, running, start_time, sensors, series,
                   mainPc, current_time, wakeAt, plotCalls, called, arg,
                   startedAt, raised>>

\* faulty variant of LightTurnOn: the light is turned on and the rule
\* returns without set_brightness(70)
LightTurnOnWithoutBrightness ==
    /\ loopPc = "light_turn_on"
    /\ IF ValueOf(sensors.light_sensor_1) < LuxThreshold /\ devices.light_1.status = "off"
       THEN devices' = [devices EXCEPT !.light_1 = turn_on(@)]
       ELSE UNCHANGED devices
    /\ ticksDone' = ticksDone + 1
    /\ loopPc' = "sleep"
    /\ UNCHANGED <<now, running, last_motion_time, start_time, sensors, series,
                   mainPc, current_time, wakeAt, plotCalls, called, arg,
                   startedAt, raised>>

\* if light_sensor.value < 200 and light.status == "off": light.turn_on();
\* otherwise the rule, and with it process_sensor_data, returns
LightTurnOn ==
    /\ loopPc = "light_turn_on"
    /\ IF ValueOf(sensors.light_sensor_1) < LuxThreshold /\ devices.light_1.status = "off"
       THEN /\ devices' = [devices EXCEPT !.light_1 = turn_on(@)]
            /\ loopPc' = "light_set_brightness"
            /\ UNCHANGED ticksDone
       ELSE /\ ticksDone' = ticksDone + 1
            /\ loopPc' = "sleep"
            /\ UNCHANGED devices
    /\ UNCHANGED <<now, running, last_motion_time, start_time, sensors, series,
                   mainPc, current_time, wakeAt, plotCalls, called, arg,
                   startedAt, raised>>

\* light.set_brightness(70), after which process_sensor_data returns
LightSetBrightness ==
    /\ loopPc = "light_set_brightness"
    /\ devices' = [devices EXCEPT !.light_1 = set_brightness(@, RuleBrightness)]
    /\ ticksDone' = ticksDone + 1
    /\ loopPc' = "sleep"
    /\ UNCHANGED <<now, running, last_motion_time, start_time, sensors, series,
                   mainPc, current_time, wakeAt, plotCalls, called, arg,
                   startedAt, raised>>

\* time.sleep(interval) is entered
Sleep ==
    /\ loopPc = "sleep"
    /\ wakeAt' = now + Interval
    /\ loopPc' = "sleeping"
    /\ UNCHANGED <<now, aggregate, series, mainPc, current_time, history>>

\* time.sleep(interval) returns: at least interval has passed
Wake ==
    /\ loopPc = "sleeping"
    /\ now' = Max(now, wakeAt)
    /\ loopPc' = "while"
    /\ UNCHANGED <<aggregate, series, mainPc, current_time, wakeAt, history>>

LoopThread ==
    \/ StartMonitoring
    \/ WhileTest
    \/ ComputeTime
    \/ ReadTemp
    \/ ReadLight
    \/ ReadMotion
    \/ AppendTimestamps
    \/ AppendTemp
    \/ AppendLight
    \/ AppendMotion
    \/ RuleThermostat
    \/ RuleLighting
    \/ LightTurnOn
    \/ LightSetBrightness
    \/ Sleep
    \/ Wake

---------------------------------------------------------------------------
(* The foreground thread: the __main__ block *)

\* automation_thread.start()
ThreadStart ==
    /\ mainPc = "start_thread"
    /\ mainPc' = "wait"
    /\ loopPc' = "start_monitoring"
    /\ UNCHANGED <<now, aggregate, series, current_time, wakeAt, history>>

\* KeyboardInterrupt is raised in the wait loop and the handler calls
\* home_system.stop_monitoring(), which sets self.running = False
StopMonitoring ==
    /\ mainPc = "wait"
    /\ running' = FALSE
    /\ mainPc' = "plot_data"
    /\ UNCHANGED <<now, last_motion_time, start_time, devices, sensors, series,
                   loopPc, current_time, wakeAt, history>>

\* faulty variant of PlotData: plot_data records a closing row before
\* plotting
PlotDataWithLastRow ==
    /\ mainPc = "plot_data"
    /\ plotCalls' = plotCalls + 1
    /\ mainPc' = "plot_temp"
    /\ timestamps' = Append(timestamps, Round2(now - start_time))
    /\ temp_data' = Append(temp_data, 0)
    /\ light_data' = Append(light_data, 0)
    /\ motion_data' = Append(motion_data, 0)
    /\ UNCHANGED <<now, aggregate, loopPc, current_time, wakeAt,
                   ticksDone, called, arg, startedAt, raised>>

\* stop_monitoring: self.plot_data() is invoked
PlotData ==
    /\ mainPc = "plot_data"
    /\ plotCalls' = plotCalls + 1
    /\ mainPc' = "plot_temp"
    /\ UNCHANGED <<now, aggregate, series, loopPc, current_time, wakeAt,
                   ticksDone, called, arg, startedAt, raised>>

\* plt.plot(self.timestamps, self.temp_data, ...)
PlotTemp ==
    /\ mainPc = "plot_temp"
    /\ mainPc' = "plot_light"
    /\ UNCHANGED <<now, aggregate, series, loopPc, current_time, wakeAt, history>>

\* plt.plot(self.timestamps, self.light_data, ...)
PlotLight ==
    /\ mainPc = "plot_light"
    /\ mainPc' = "plot_motion"
    /\ UNCHANGED <<now, aggregate, series, loopPc, current_time, wakeAt, history>>

\* plt.plot(self.timestamps, self.motion_data, ...); plt.show() returns and
\* so do plot_data and stop_monitoring
PlotMotion ==
    /\ mainPc = "plot_motion"
    /\ mainPc' = "join"
    /\ UNCHANGED <<now, aggregate, series, loopPc, current_time, wakeAt, history>>

\* automation_thread.join() returns once the thread has left start_monitoring
Join ==
    /\ mainPc = "join"
    /\ loopPc = "done"
    /\ mainPc' = "stopped"
    /\ UNCHANGED <<now, aggregate, series, loopPc, current_time, wakeAt, history>>

MainThread ==
    \/ ThreadStart
    \/ StopMonitoring
    \/ PlotData
    \/ PlotTemp
    \/ PlotLight
    \/ PlotMotion
    \/ Join

Next == Advance \/ LoopThread \/ MainThread

Spec == Init /\ [][Next]_vars

---------------------------------------------------------------------------
(* The operations of the sensors, the devices and the rules, with         *)
(* initialize_components, stop_monitoring and plot_data, applied one at a  *)
(* time and in any order by a single caller to a HomeAutomationSystem      *)
(* whose loop was never started, with injected readings.  The calls of     *)
(* process_sensor_data are those of ScenarioSpec and Spec; a call of       *)
(* start_monitoring does not return to a single caller.                    *)

\* the rendering sink is invoked at most MaxPlotCalls times by the caller
MaxPlotCalls == 2

\* target temperature the thermostat is constructed with
ApiTargets == {24}
\* brightness the light is constructed with
ApiBrightness == {50}
\* arguments of set_brightness
ApiLevels == {-1, 0, 100, 101}
\* arguments of set_target_temperature
ApiTemps == {17, 18, 30, 31}
\* arguments of the status setter
ApiStatuses == {"on", "off", "dim"}
\* injected temperature readings: on and next to target - 1 and target + 1
\* for the targets 18, 24 and 30
ApiTempReadings == {1700, 2299, 2300, 2500, 2501, 3100}

ApiInit ==
    /\ last_motion_time = 0
    /\ start_time = 0
    /\ now = start_time
    /\ running = FALSE
    /\ \E b \in ApiBrightness, t \in ApiTargets :
          devices = [light_1 |-> SmartLight(b), thermostat_1 |-> SmartThermostat(t)]
    /\ sensors = InitialSensors
    /\ timestamps = <<>>
    /\ temp_data = <<>>
    /\ light_data = <<>>
    /\ motion_data = <<>>
    /\ loopPc = "not_started"
    /\ mainPc = "caller"
    /\ current_time = 0
    /\ wakeAt = 0
    /\ ticksDone = 0
    /\ plotCalls = 0
    /\ startedAt = 0
    /\ called = "none"
    /\ arg = 0
    /\ raised = FALSE

\* read_value() of one sensor, with an injected reading
ApiReadTemp ==
    /\ \E v \in ApiTempReadings : sensors' = [sensors EXCEPT !.temp_sensor_1 = Reading(v)]
    /\ called' = "read_value"
    /\ raised' = FALSE
    /\ arg' = 0
    /\ UNCHANGED <<now, running, last_motion_time, start_time, devices, series,
                   loopPc, mainPc, current_time, wakeAt, ticksDone, plotCalls, startedAt>>

ApiReadLight ==
    /\ \E v \in LuxReadings : sensors' = [sensors EXCEPT !.light_sensor_1 = Reading(v)]
    /\ called' = "read_value"
    /\ raised' = FALSE
    /\ arg' = 0
    /\ UNCHANGED <<now, running, last_motion_time, start_time, devices, series,
                   loopPc, mainPc, current_time, wakeAt, ticksDone, plotCalls, startedAt>>

ApiReadMotion ==
    /\ \E v \in MotionReadings : sensors' = [sensors EXCEPT !.motion_sensor_1 = Reading(v)]
    /\ called' = "read_value"
    /\ raised' = FALSE
    /\ arg' = 0
    /\ UNCHANGED <<now, running, last_motion_time, start_time, devices, series,
                   loopPc, mainPc, current_time, wakeAt, ticksDone, plotCalls, startedAt>>

\* rule_thermostat_control(); before the first read_value the comparison
\* of None with a number raises TypeError and nothing has changed
ApiRuleThermostat ==
    /\ IF sensors.temp_sensor_1 = None
       THEN /\ raised' = TRUE
            /\ UNCHANGED devices
       ELSE /\ raised' = FALSE
            /\ devices' = [devices EXCEPT !.thermostat_1 =
                             rule_thermostat_control(@, ValueOf(sensors.temp_sensor_1))]
    /\ called' = "rule_thermostat_control"
    /\ arg' = 0
    /\ UNCHANGED <<now, running, last_motion_time, start_time, sensors, series,
                   loopPc, mainPc, current_time, wakeAt, ticksDone, plotCalls, startedAt>>

\* rule_lighting_control(); a motion value of None counts as no motion;
\* with motion and a light value of None, last_motion_time is written and
\* the comparison of None with 200 raises TypeError.  Without motion the
\* light value is not evaluated.
ApiRuleLighting ==
    /\ LET motion == sensors.motion_sensor_1 # None /\ ValueOf(sensors.motion_sensor_1)
       IN  IF motion /\ sensors.light_sensor_1 = None
           THEN /\ last_motion_time' = now
                /\ raised' = TRUE
                /\ UNCHANGED devices
           ELSE LET r == rule_lighting_control(devices.light_1, last_motion_time,
                            IF motion THEN ValueOf(sensors.light_sensor_1) ELSE 0,
                            motion, now)
                IN  /\ devices' = [devices EXCEPT !.light_1 = r.light]
                    /\ last_motion_time' = r.last_motion_time
                    /\ raised' = FALSE
    /\ called' = "rule_lighting_control"
    /\ arg' = 0
    /\ UNCHANGED <<now, running, start_time, sensors, series,
                   loopPc, mainPc, current_time, wakeAt, ticksDone, plotCalls, startedAt>>

ApiSetBrightness ==
    /\ \E level \in ApiLevels :
          /\ devices' = [devices EXCEPT !.light_1 = set_brightness(@, level)]
          /\ arg' = level
    /\ called' = "set_brightness"
    /\ raised' = FALSE
    /\ UNCHANGED <<now, running, last_motion_time, start_time, sensors, series,
                   loopPc, mainPc, current_time, wakeAt, ticksDone, plotCalls, startedAt>>

ApiSetTargetTemperature ==
    /\ \E temp \in ApiTemps :
          /\ devices' = [devices EXCEPT !.thermostat_1 = set_target_temperature(@, temp)]
          /\ arg' = temp
    /\ called' = "set_target_temperature"
    /\ raised' = FALSE
    /\ UNCHANGED <<now, running, last_motion_time, start_time, sensors, series,
                   loopPc, mainPc, current_time, wakeAt, ticksDone, plotCalls, startedAt>>

\* device.status = new_status, which turn_on and turn_off go through
ApiSetStatus ==
    /\ \E d \in {"light_1", "thermostat_1"}, st \in ApiStatuses :
          devices' = [devices EXCEPT ![d] = set_status(@, st)]
    /\ called' = "status"
    /\ raised' = FALSE
    /\ arg' = 0
    /\ UNCHANGED <<now, running, last_motion_time, start_time, sensors, series,
                   loopPc, mainPc, current_time, wakeAt, ticksDone, plotCalls, startedAt>>

\* stop_monitoring(): self.running = False, then self.plot_data()
ApiStopMonitoring ==
    /\ plotCalls < MaxPlotCalls
    /\ running' = FALSE
    /\ plotCalls' = plotCalls + 1
    /\ called' = "stop_monitoring"
    /\ raised' = FALSE
    /\ arg' = 0
    /\ UNCHANGED <<now, last_motion_time, start_time, devices, sensors, series,
                   loopPc, mainPc, current_time, wakeAt, ticksDone, startedAt>>

\* plot_data() called directly
ApiPlotData ==
    /\ plotCalls < MaxPlotCalls
    /\ plotCalls' = plotCalls + 1
    /\ called' = "plot_data"
    /\ arg' = 0
    /\ raised' = FALSE
    /\ UNCHANGED <<now, aggregate, series,
                   loopPc, mainPc, current_time, wakeAt, ticksDone, startedAt>>

\* initialize_components(): new devices and new sensors replace the old
ApiInitializeComponents ==
    /\ devices' = InitialDevices
    /\ sensors' = InitialSensors
    /\ called' = "initialize_components"
    /\ arg' = 0
    /\ raised' = FALSE
    /\ UNCHANGED <<now, running, last_motion_time, start_time, series,
                   loopPc, mainPc, current_time, wakeAt, ticksDone, plotCalls, startedAt>>

ApiNext ==
    \/ Advance
    \/ ApiReadTemp
    \/ ApiReadLight
    \/ ApiReadMotion
    \/ ApiRuleThermostat
    \/ ApiRuleLighting
    \/ ApiSetBrightness
    \/ ApiSetTargetTemperature
    \/ ApiSetStatus
    \/ ApiStopMonitoring
    \/ ApiPlotData
    \/ ApiInitializeComponents

ApiSpec == ApiInit /\ [][ApiNext]_vars

---------------------------------------------------------------------------
(* The devices on their own: a SmartLight and a SmartThermostat            *)
(* constructed with any arguments, then any sequence of their operations.  *)

\* brightness arguments of the SmartLight constructor
DeviceBrightness == {-5, 0, 50, 100, 150}
\* target_temperature arguments of the SmartThermostat constructor
DeviceTargets == {10, 18, 24, 30, 40}

DeviceInit ==
    /\ last_motion_time = 0
    /\ start_time = 0
    /\ now = 0
    /\ running = FALSE
    /\ \E b \in DeviceBrightness, t \in DeviceTargets :
          devices = [light_1 |-> SmartLight(b), thermostat_1 |-> SmartThermostat(t)]
    /\ sensors = InitialSensors
    /\ timestamps = <<>>
    /\ temp_data = <<>>
    /\ light_data = <<>>
    /\ motion_data = <<>>
    /\ loopPc = "not_started"
    /\ mainPc = "caller"
    /\ current_time = 0
    /\ wakeAt = 0
    /\ ticksDone = 0
    /\ plotCalls = 0
    /\ startedAt = 0
    /\ called = "none"
    /\ arg = 0
    /\ raised = FALSE

\* device.turn_on()
DeviceTurnOn ==
    /\ \E d \in {"light_1", "thermostat_1"} :
          devices' = [devices EXCEPT ![d] = turn_on(@)]
    /\ called' = "turn_on"
    /\ raised' = FALSE
    /\ arg' = 0
    /\ UNCHANGED <<now, running, last_motion_time, start_time, sensors, series,
                   loopPc, mainPc, current_time, wakeAt, ticksDone, plotCalls, startedAt>>

\* device.turn_off()
DeviceTurnOff ==
    /\ \E d \in {"light_1", "thermostat_1"} :
          devices' = [devices EXCEPT ![d] = turn_off(@)]
    /\ called' = "turn_off"
    /\ raised' = FALSE
    /\ arg' = 0
    /\ UNCHANGED <<now, running, last_motion_time, start_time, sensors, series,
                   loopPc, mainPc, current_time, wakeAt, ticksDone, plotCalls, startedAt>>

DeviceNext ==
    \/ DeviceTurnOn
    \/ DeviceTurnOff
    \/ ApiSetStatus
    \/ ApiSetBrightness
    \/ ApiSetTargetTemperature

DeviceSpec == DeviceInit /\ [][DeviceNext]_vars

---------------------------------------------------------------------------
(* The end-to-end scenario: process_sensor_data is called three times on a *)
(* freshly constructed system, with injected readings and an injected      *)
(* clock that stands still during a call.                                  *)

\* the readings injected in each call (26 and 24.5 degrees)
ScenarioReadings ==
    << [temp |-> 2600, lux |-> 180, motion |-> TRUE],
       [temp |-> 2450, lux |-> 300, motion |-> FALSE],
       [temp |-> 2450, lux |-> 300, motion |-> FALSE] >>

\* the time that passes before each call, in ms: the calls are made at
\* T, T + 5 s and T + 31 s
ScenarioDelays == << 0, 5000, 26000 >>

ScenarioInit ==
    /\ last_motion_time = 0
    /\ start_time \in StartInstants
    /\ now = start_time
    /\ running = FALSE
    /\ devices = InitialDevices
    /\ sensors = InitialSensors
    /\ timestamps = <<>>
    /\ temp_data = <<>>
    /\ light_data = <<>>
    /\ motion_data = <<>>
    /\ loopPc = "not_started"
    /\ mainPc = "caller"
    /\ current_time = 0
    /\ wakeAt = 0
    /\ ticksDone = 0
    /\ plotCalls = 0
    /\ startedAt = 0
    /\ called = "none"
    /\ arg = 0
    /\ raised = FALSE

\* time passes between the construction and the first call
ScenarioWait ==
    /\ loopPc = "not_started"
    /\ Advance

\* the next call of process_sensor_data begins, at its injected time
ScenarioCall ==
    /\ loopPc \in {"not_started", "sleep"}
    /\ ticksDone < Len(ScenarioReadings)
    /\ now' = now + ScenarioDelays[ticksDone + 1]
    /\ loopPc' = "process_sensor_data"
    /\ UNCHANGED <<aggregate, series, mainPc, current_time, wakeAt, history>>

\* the three read_value() calls return the injected readings
ScenarioReadTemp ==
    /\ loopPc = "read_temp"
    /\ sensors' = [sensors EXCEPT
                     !.temp_sensor_1 = Reading(ScenarioReadings[ticksDone + 1].temp)]
    /\ loopPc' = "read_light"
    /\ UNCHANGED <<now, running, last_motion_time, start_time, devices, series,
                   mainPc, current_time, wakeAt, history>>

ScenarioReadLight ==
    /\ loopPc = "read_light"
    /\ sensors' = [sensors EXCEPT
                     !.light_sensor_1 = Reading(ScenarioReadings[ticksDone + 1].lux)]
    /\ loopPc' = "read_motion"
    /\ UNCHANGED <<now, running, last_motion_time, start_time, devices, series,
                   mainPc, current_time, wakeAt, history>>

ScenarioReadMotion ==
    /\ loopPc = "read_motion"
    /\ sensors' = [sensors EXCEPT
                     !.motion_sensor_1 = Reading(ScenarioReadings[ticksDone + 1].motion)]
    /\ loopPc' = "append_timestamps"
    /\ UNCHANGED <<now, running, last_motion_time, start_time, devices, series,
                   mainPc, current_time, wakeAt, history>>

ScenarioNext ==
    \/ ScenarioWait
    \/ ScenarioCall
    \/ ComputeTime
    \/ ScenarioReadTemp
    \/ ScenarioReadLight
    \/ ScenarioReadMotion
    \/ AppendTimestamps
    \/ AppendTemp
    \/ AppendLight
    \/ AppendMotion
    \/ RuleThermostat
    \/ RuleLighting
    \/ LightTurnOn
    \/ LightSetBrightness

ScenarioSpec == ScenarioInit /\ [][ScenarioNext]_vars

---------------------------------------------------------------------------
(* Properties *)

\* stop_monitoring() has been called by the foreground thread
StopCalled == mainPc \in {"plot_data", "plot_temp", "plot_light", "plot_motion",
                          "join", "stopped"}

\* the foreground thread is inside plot_data
Plotting == mainPc \in {"plot_temp", "plot_light", "plot_motion"}

\* automation_thread has left start_monitoring
LoopExited == loopPc = "done"

\* automation_thread is inside a call of process_sensor_data
InTick == loopPc \in {"process_sensor_data", "read_temp", "read_light", "read_motion",
                      "append_timestamps", "append_temp", "append_light",
                      "append_motion", "rule_thermostat_control",
                      "rule_lighting_control", "light_turn_on",
                      "light_set_brightness"}

\* automation_thread is inside time.sleep
InSleep == loopPc \in {"sleep", "sleeping"}

\* automation_thread is between two calls of process_sensor_data
AtTickBoundary == ~InTick

\* s is t with at most one element appended
AppendedTo(s, t) ==
    /\ Len(t) <= Len(s)
    /\ Len(s) <= Len(t) + 1
    /\ SubSeq(s, 1, Len(t)) = t

\* the thermostat of the system and the reading its rule uses
Thermostat == devices.thermostat_1
Light == devices.light_1
TempReading == ValueOf(sensors.temp_sensor_1)
LuxReading == ValueOf(sensors.light_sensor_1)
MotionReading == ValueOf(sensors.motion_sensor_1)

\* the sensor holds a reading: read_value has been called on it
HasTemp == sensors.temp_sensor_1 # None
HasLux == sensors.light_sensor_1 # None
HasMotion == sensors.motion_sensor_1 # None

\* C1: the rendering sink is invoked at most once, and plot_data never
\* executes while automation_thread is still inside a tick or its sleep.
C1_PlotNeverConcurrentWithLoop ==
    /\ plotCalls <= 1
    /\ ~(Plotting /\ (InTick \/ InSleep))

\* C2: a stop request leads to quiescence.  Nothing sets running to False
\* after stop_monitoring, so the loop can only leave if the request stays
\* in force: once stop_monitoring has set running to False, running stays
\* False.
C2_StopRequestStaysInForce ==
    [][(StopCalled /\ ~running) => ~running']_vars

\* C3: once stop_monitoring has been called and automation_thread has
\* exited, no step changes the recorded series.
C3_NoRowAfterQuiescence ==
    [][(StopCalled /\ LoopExited) => UNCHANGED series]_vars

\* C3 witness: quiesced after a stop, with recorded rows and with time
\* having passed since the last row
C3_Witness ==
    /\ mainPc = "stopped"
    /\ LoopExited
    /\ Len(timestamps) = MaxTicks
    /\ Round2(now - start_time) > timestamps[Len(timestamps)] + Round2(Interval)

\* C4: the stop takes effect at the sleep boundary: after a stop request the
\* while test of the loop never lets a further tick begin (the tick that is
\* in progress when the request arrives may finish).
C4_NoTickBeginsAfterStop ==
    [][(StopCalled /\ loopPc = "while") => loopPc' # "process_sensor_data"]_vars

\* C5: stop_monitoring() called when running is already False changes no
\* state of the system and does not invoke the rendering sink.
C5_StopIsNoOpWhenStopped ==
    [][(~running /\ ApiStopMonitoring) => UNCHANGED <<aggregate, series, plotCalls>>]_vars

\* C6: at every tick boundary the four columns hold one row per completed
\* call of process_sensor_data, and every step leaves the rows already
\* recorded in place, adding at most one at the end of a column.
C6_OneRowPerTick ==
    /\ [](AtTickBoundary =>
            /\ Len(timestamps) = ticksDone
            /\ Len(temp_data) = ticksDone
            /\ Len(light_data) = ticksDone
            /\ Len(motion_data) = ticksDone)
    /\ [][/\ AppendedTo(timestamps', timestamps)
          /\ AppendedTo(temp_data', temp_data)
          /\ AppendedTo(light_data', light_data)
          /\ AppendedTo(motion_data', motion_data)]_vars

\* C6 witness: a tick boundary after two ticks with different rows
C6_Witness ==
    /\ AtTickBoundary
    /\ ticksDone = 2
    /\ Len(motion_data) = 2
    /\ temp_data[1] # temp_data[2]
    /\ motion_data[1] # motion_data[2]

\* C7: the recorded timestamps are non-decreasing in tick order.
C7_TimestampsNonDecreasing ==
    \A i, j \in 1..Len(timestamps) : i < j => timestamps[i] <= timestamps[j]

\* C7 witness: two rows, the second one later
C7_Witness ==
    /\ Len(timestamps) = 2
    /\ timestamps[1] < timestamps[2]

\* C8: after rule_thermostat_control has run on a reading, the thermostat
\* is on iff the reading is above target + 1 or below target - 1; on the
\* boundaries it is off.
C8_ThermostatBand ==
    (called = "rule_thermostat_control" /\ ~raised) =>
        Thermostat.status =
            IF \/ TempReading > (Thermostat.target_temperature + 1) * 100
               \/ TempReading < (Thermostat.target_temperature - 1) * 100
            THEN "on" ELSE "off"

\* C8 witness: the rule has run on a boundary reading, for a target other
\* than the default, and the thermostat is off
C8_Witness ==
    /\ called = "rule_thermostat_control"
    /\ ~raised
    /\ Thermostat.target_temperature = 30
    /\ TempReading = (Thermostat.target_temperature + 1) * 100
    /\ Thermostat.status = "off"

\* C9: a step of rule_thermostat_control on a reading yields the status it
\* would yield from any other previous status, yields the same state when
\* applied again, and changes nothing but the thermostat's status.
C9_ThermostatRulePure ==
    [][ApiRuleThermostat =>
          /\ HasTemp =>
                /\ \A st \in {"on", "off"} :
                      Thermostat'.status =
                          rule_thermostat_control([Thermostat EXCEPT !.status = st],
                                                  TempReading).status
                /\ rule_thermostat_control(Thermostat', TempReading') = Thermostat'
                /\ called = "rule_thermostat_control" => Thermostat' = Thermostat
          /\ Thermostat'.target_temperature = Thermostat.target_temperature
          /\ Light' = Light
          /\ UNCHANGED <<last_motion_time, sensors, series, running, start_time>>
    ]_vars

\* C9 witness: the rule has run within the band on a thermostat that may
\* have been on before, next to a light that is on
C9_Witness ==
    /\ called = "rule_thermostat_control"
    /\ ~raised
    /\ TempReading = 2400 + 100
    /\ Thermostat.target_temperature = 24
    /\ Thermostat.status = "off"
    /\ Light.status = "on"
    /\ last_motion_time > 0

\* C10: a step of rule_lighting_control with motion sets last_motion_time
\* to the current time; with lux below 200 and the light off it leaves the
\* light on at brightness 70, with lux of 200 or more and the light off it
\* leaves the light as it was; it never turns the light off.
C10_LightingMotionBranch ==
    [][(ApiRuleLighting /\ HasMotion /\ MotionReading) =>
          /\ last_motion_time' = now
          /\ (HasLux /\ LuxReading < 200 /\ Light.status = "off") =>
                (Light'.status = "on" /\ Light'.brightness = 70)
          /\ (HasLux /\ LuxReading >= 200 /\ Light.status = "off") => Light' = Light
          /\ Light.status = "on" => Light'.status = "on"
    ]_vars

\* C10 witness: the rule has run with motion at a lux below 200, at a
\* time after construction, and the light is on at brightness 70
C10_Witness ==
    /\ called = "rule_lighting_control"
    /\ ~raised
    /\ HasMotion /\ MotionReading
    /\ HasLux /\ LuxReading < 200
    /\ now > 0
    /\ last_motion_time = now
    /\ Light = [status |-> "on", brightness |-> 70]

\* C11: a step of rule_lighting_control without motion turns a light that
\* is on off iff more than 30 seconds have passed since last_motion_time
\* (at exactly 30 seconds it stays on); it never turns the light on and
\* never changes last_motion_time.
C11_LightingTimeoutBranch ==
    [][(ApiRuleLighting /\ HasMotion /\ ~MotionReading) =>
          /\ last_motion_time' = last_motion_time
          /\ Light.status = "on" =>
                (Light'.status = "off" <=> now - last_motion_time > 30000)
          /\ Light.status = "off" => Light'.status = "off"
    ]_vars

\* C11 witness: the rule has run without motion exactly 30 seconds after
\* the last motion and the light is still on
C11_Witness ==
    /\ called = "rule_lighting_control"
    /\ HasMotion /\ ~MotionReading
    /\ now - last_motion_time = 30000
    /\ Light.status = "on"

\* C12: in the three-call scenario the first call leaves the thermostat on
\* and the light on at brightness 70, the second leaves the thermostat off
\* and the light on, the third leaves the light off, and three rows are
\* recorded.
C12_Scenario ==
    loopPc = "sleep" =>
        /\ ticksDone = 1 =>
              /\ Thermostat.status = "on"
              /\ Light = [status |-> "on", brightness |-> 70]
        /\ ticksDone = 2 =>
              /\ Thermostat.status = "off"
              /\ Light.status = "on"
        /\ ticksDone = 3 =>
              /\ Light.status = "off"
              /\ Len(timestamps) = 3
              /\ Len(temp_data) = 3
              /\ Len(light_data) = 3
              /\ Len(motion_data) = 3

\* C12 witness: the third call has returned, 31 seconds after the motion
C12_Witness ==
    /\ loopPc = "sleep"
    /\ ticksDone = 3
    /\ now - last_motion_time = 31000
    /\ temp_data = <<2600, 2450, 2450>>
    /\ motion_data = <<1, 0, 0>>
    /\ Light.status = "off"

\* C13: set_brightness(b) stores b iff 0 <= b <= 100 and then changes
\* nothing else of the light; for any other b the light is unchanged.
C13_SetBrightnessRange ==
    [][ApiSetBrightness =>
          IF 0 <= arg' /\ arg' <= 100
          THEN Light' = [Light EXCEPT !.brightness = arg']
          ELSE Light' = Light
    ]_vars

\* C13 witness: set_brightness(101) has been refused on a light that is on
\* and whose brightness an earlier set_brightness(0) had set
C13_Witness ==
    /\ called = "set_brightness"
    /\ arg = 101
    /\ Light = [status |-> "on", brightness |-> 0]

\* C14: set_target_temperature(t) stores t iff 18 <= t <= 30 and then
\* changes nothing else of the thermostat; for any other t the thermostat
\* is unchanged.
C14_SetTargetRange ==
    [][ApiSetTargetTemperature =>
          IF 18 <= arg' /\ arg' <= 30
          THEN Thermostat' = [Thermostat EXCEPT !.target_temperature = arg']
          ELSE Thermostat' = Thermostat
    ]_vars

\* C14 witness: set_target_temperature(17) has been refused on a thermostat
\* that is on and whose target an earlier set_target_temperature(18) had set
C14_Witness ==
    /\ called = "set_target_temperature"
    /\ arg = 17
    /\ Thermostat = [status |-> "on", target_temperature |-> 18]

\* C15: every device has a status of on or off, every light a brightness
\* in [0, 100] and every thermostat a target in [18, 30], whatever the
\* arguments of its constructor.
C15_DeviceDomains ==
    /\ Light.status \in {"on", "off"}
    /\ Thermostat.status \in {"on", "off"}
    /\ 0 <= Light.brightness /\ Light.brightness <= 100
    /\ 18 <= Thermostat.target_temperature /\ Thermostat.target_temperature <= 30

\* the four columns hold n rows
RowsRecorded(n) ==
    /\ Len(timestamps) = n
    /\ Len(temp_data) = n
    /\ Len(light_data) = n
    /\ Len(motion_data) = n

\* the last recorded row holds the values the sensors currently hold
LastRowHoldsReadings ==
    /\ temp_data[Len(temp_data)] = TempReading
    /\ light_data[Len(light_data)] = LuxReading
    /\ motion_data[Len(motion_data)] = (IF MotionReading THEN 1 ELSE 0)

\* automation_thread takes a step of rule_lighting_control
LightingStep == RuleLighting \/ LightTurnOn \/ LightSetBrightness

\* C16: within a tick the three sensors are read before the row is
\* appended, the row holds the fresh readings, the thermostat rule runs
\* once on the recorded row after it is complete, the lighting rule runs
\* once after the thermostat rule on the same row and ends the tick, and
\* the devices change in no other step.
C16_TickOrder ==
    [][/\ (ReadTemp \/ ReadLight \/ ReadMotion) => RowsRecorded(ticksDone)
       /\ (AppendTimestamps \/ AppendTemp \/ AppendLight \/ AppendMotion) =>
             /\ sensors.temp_sensor_1 # None
             /\ sensors.light_sensor_1 # None
             /\ sensors.motion_sensor_1 # None
             /\ Len(timestamps) <= ticksDone + 1
             /\ Thermostat' = Thermostat /\ Light' = Light
       /\ RuleThermostat =>
             /\ RowsRecorded(ticksDone + 1)
             /\ LastRowHoldsReadings
             /\ Thermostat' = rule_thermostat_control(Thermostat, temp_data[Len(temp_data)])
             /\ Light' = Light
             /\ ticksDone' = ticksDone
       /\ LightingStep =>
             /\ RowsRecorded(ticksDone + 1)
             /\ LastRowHoldsReadings
             /\ Thermostat = rule_thermostat_control(Thermostat, temp_data[Len(temp_data)])
             /\ Thermostat' = Thermostat
       /\ RuleLighting =>
             IF motion_data[Len(motion_data)] = 1
             THEN last_motion_time' = now /\ Light' = Light
             ELSE /\ last_motion_time' = last_motion_time
                  /\ Light' = rule_lighting_control(Light, last_motion_time,
                                    light_data[Len(light_data)], FALSE, now).light
       /\ LightTurnOn =>
             /\ motion_data[Len(motion_data)] = 1
             /\ Light' = IF light_data[Len(light_data)] < 200 /\ Light.status = "off"
                         THEN turn_on(Light) ELSE Light
       /\ LightSetBrightness =>
             /\ light_data[Len(light_data)] < 200
             /\ Light' = set_brightness(Light, 70)
       \* each rule is entered once for each row
       /\ (loopPc' = "rule_thermostat_control" /\ loopPc' # loopPc) => AppendMotion
       /\ (loopPc' = "rule_lighting_control" /\ loopPc' # loopPc) => RuleThermostat
       /\ (loopPc' \in {"light_turn_on", "light_set_brightness"} /\ loopPc' # loopPc) =>
             LightingStep
       \* the tick ends when the lighting rule returns
       /\ ticksDone' # ticksDone =>
             /\ LightingStep
             /\ ticksDone' = ticksDone + 1
             /\ (motion_data[Len(motion_data)] = 1 /\ light_data[Len(light_data)] < 200) =>
                   Light' = [status |-> "on", brightness |-> 70]
       /\ devices' # devices => RuleThermostat \/ LightingStep
       /\ sensors' # sensors => ReadTemp \/ ReadLight \/ ReadMotion
    ]_vars

\* C16 witness: two ticks have completed; the second one recorded 25.01
\* degrees, 199 lux and motion, and left the thermostat and the light on
C16_Witness ==
    /\ loopPc = "sleep"
    /\ ticksDone = 2
    /\ temp_data = <<2500, 2501>>
    /\ light_data = <<200, 199>>
    /\ motion_data = <<0, 1>>
    /\ Thermostat.status = "on"
    /\ Light.status = "on"

\* C17: the elapsed time a tick computes is the clock at that tick minus
\* the clock at the moment start_monitoring was entered, and that value is
\* the timestamp the tick records, whatever time passed between the
\* construction of the HomeAutomationSystem and the start of the loop.
C17_ElapsedSinceLoopStart ==
    [][/\ ComputeTime => current_time' = Round2(now - startedAt)
       /\ AppendTimestamps => timestamps' = Append(timestamps, current_time)
    ]_vars

\* the foreground thread takes a step of stop_monitoring, plot_data or join
ShutdownStep ==
    StopMonitoring \/ PlotData \/ PlotTemp \/ PlotLight \/ PlotMotion \/ Join

\* C18: a step of the foreground shutdown path changes nothing of the
\* aggregate and of the recorded series except running, which it can only
\* set to False; devices, sensors, last_motion_time, start_time and the
\* series change only in a step automation_thread takes inside a tick.
C18_SingleWriter ==
    [][/\ ShutdownStep =>
             /\ UNCHANGED <<last_motion_time, start_time, devices, sensors, series>>
             /\ running' # running => ~running'
       /\ <<last_motion_time, start_time, devices, sensors, series>>' #
             <<last_motion_time, start_time, devices, sensors, series>> =>
             /\ InTick
             /\ loopPc' # loopPc
             /\ mainPc' = mainPc
    ]_vars

\* C18 witness: the shutdown path has run to its end after two ticks, the
\* second of which turned the light on
C18_Witness ==
    /\ mainPc = "stopped"
    /\ ~running
    /\ ticksDone = 2
    /\ motion_data = <<0, 1>>
    /\ Light.status = "on"

\* C19: whenever plot_data reads the recorded series, the four columns
\* have the same length, the number of completed ticks, in every
\* interleaving of the foreground shutdown path with automation_thread.
C19_PlotSeesConsistentSnapshot ==
    Plotting => RowsRecorded(ticksDone)

\* C20: in the running system the light is on only at brightness 70 in
\* every reachable state, the lighting rule does not change the brightness
\* when it finds the light on, and the target temperature of the
\* thermostat stays at 24.
C20_RunningSystemDevices ==
    /\ [](Light.status = "on" => Light.brightness = RuleBrightness)
    /\ [](Thermostat.target_temperature = DefaultTarget)
    /\ [][/\ Light'.brightness # Light.brightness => LightSetBrightness
          /\ (loopPc' = "light_set_brightness" /\ loopPc' # loopPc) => Light.status = "off"
       ]_vars

\* C20 as amended: the light is on only at brightness 70 in every state
\* except between the turn_on() and the set_brightness(70) of the lighting
\* rule, hence at every tick boundary; the brightness changes only in that
\* set_brightness(70), which follows a turn_on() of a light that was off;
\* the target temperature of the thermostat stays at 24.
C20_RunningSystemDevicesOutsideRule ==
    /\ []((Light.status = "on" /\ loopPc # "light_set_brightness") =>
             Light.brightness = RuleBrightness)
    /\ [](AtTickBoundary /\ Light.status = "on" => Light.brightness = RuleBrightness)
    /\ [](Thermostat.target_temperature = DefaultTarget)
    /\ [][/\ Light'.brightness # Light.brightness =>
                LightSetBrightness /\ Light'.brightness = RuleBrightness
          /\ (loopPc' = "light_set_brightness" /\ loopPc' # loopPc) =>
                LightTurnOn /\ Light.status = "off" /\ Light'.status = "on"
       ]_vars

\* C20 witness: the lighting rule has run with motion in the dark twice;
\* the first run turned the light on, the second found it on
C20_Witness ==
    /\ loopPc = "sleep"
    /\ ticksDone = 2
    /\ motion_data = <<1, 1>>
    /\ light_data = <<199, 199>>
    /\ Light = [status |-> "on", brightness |-> 70]
    /\ Thermostat.target_temperature = 24

=============================================================================
